---- MODULE Spec2Model ----
(***************************************************************************)
(* Model of src/src/completion.rs (clang-rs code completion): the owning   *)
(* CompletionResults, the borrowed CompletionResult / CompletionString /   *)
(* CompletionChunk views, chunk decoding, the context bitmask decoder and  *)
(* the ordering and equality of completion strings.                        *)
(*                                                                         *)
(* Strings are sequences of byte values.  Option<T> is a sequence of       *)
(* length 0 (None) or 1 (Some).  A raw CXCompletionString handle is the    *)
(* path of the native object inside the result buffer: <<i>> is the string *)
(* of the i-th native result, Append(h, k) the string nested in chunk k of *)
(* h; <<>> is the null handle.                                             *)
(***************************************************************************)
EXTENDS Integers, Sequences, FiniteSets, TLC

VARIABLES pc, ptr, mem, disposed, views, args, ret, nullDeref, staleRead

vars == <<pc, ptr, mem, disposed, views, args, ret, nullDeref, staleRead>>

(***************************************************************************)
(* Bounds of the model                                                     *)
(***************************************************************************)
MaxTextLen == 2
MaxNestedDepth == 2
MaxMaskBit == 22
MaxCopies == 2

(***************************************************************************)
(* Generic helpers                                                         *)
(***************************************************************************)
None == <<>>
Some(x) == <<x>>

RECURSIVE SetToSeq(_)
SetToSeq(S) ==
    IF S = {} THEN <<>>
    ELSE LET x == CHOOSE y \in S : TRUE IN <<x>> \o SetToSeq(S \ {x})

RECURSIVE Pow2(_)
Pow2(n) == IF n = 0 THEN 1 ELSE 2 * Pow2(n - 1)

RECURSIVE SetMask(_)
SetMask(S) ==
    IF S = {} THEN 0
    ELSE LET b == CHOOSE y \in S : TRUE IN Pow2(b) + SetMask(S \ {b})

(***************************************************************************)
(* The native engine (libclang), as seen through the calls the source      *)
(* makes.  A CXString is its NUL-terminated byte data, or <<>> when its    *)
(* data pointer is null.                                                   *)
(***************************************************************************)
NullCXString == <<>>
CString(t) == t \o <<0>>

\* CXCompletionChunkKind, in the order get_chunks matches the kinds
PunctuationKindSeq ==
    <<"Colon", "Comma", "Equal", "SemiColon", "LeftAngle", "RightAngle",
      "LeftBrace", "RightBrace", "LeftParen", "RightParen", "LeftBracket",
      "RightBracket">>

TextKindSeq ==
    <<"HorizontalSpace", "VerticalSpace", "CurrentParameter", "TypedText",
      "Text", "Placeholder", "Informative", "ResultType">>

Range(f) == {f[i] : i \in DOMAIN f}
PunctuationKinds == Range(PunctuationKindSeq)
TextKinds == Range(TextKindSeq)
CXCompletionChunkKind == PunctuationKinds \cup TextKinds \cup {"Optional"}

\* one native chunk: its kind, its text and the nested string (Optional only)
NChunk(k, t, c) == [kind |-> k, text |-> t, child |-> c]
NPunct(k) == NChunk(k, NullCXString, <<>>)
NText(k, t) == NChunk(k, CString(t), <<>>)
NOptional(s) == NChunk("Optional", NullCXString, <<s>>)
NString(p, cs) == [priority |-> p, chunks |-> cs]

\* byte strings the engine output is drawn from: "a", "b", "foo", "int x", "abc"
Chars == {97, 98}
Texts == UNION {[1 .. m -> Chars] : m \in 0 .. MaxTextLen}
A == <<97>>
B == <<98>>
Foo == <<102, 111, 111>>
IntX == <<105, 110, 116, 32, 120>>
Abc == <<97, 98, 99>>

PrioritySeq == <<5, 10, 20>>

\* nested (optional) sub-templates: at most one chunk, nested up to depth d
RECURSIVE NestedStrings(_)
NestedStrings(d) ==
    {NString(0, <<>>), NString(0, <<NText("TypedText", A)>>),
     NString(0, <<NText("TypedText", B)>>), NString(0, <<NText("Placeholder", A)>>)}
      \cup (IF d <= 1 THEN {}
            ELSE {NString(0, <<NOptional(s)>>) : s \in NestedStrings(d - 1)})

\* the sequence of f(x, y), x in xs, y in ys
Product(xs, ys, f(_, _)) ==
    [n \in 1 .. (Len(xs) * Len(ys)) |->
        f(xs[((n - 1) \div Len(ys)) + 1], ys[((n - 1) % Len(ys)) + 1])]

One(c) == <<c>>
OneText(k, t) == <<NText(k, t)>>
Two(c, d) == <<c, d>>

TextSeq == SetToSeq(Texts)
OtherTextSeq == SetToSeq(Texts \ {A})
NestedSeq == SetToSeq(NestedStrings(MaxNestedDepth))

PairChunks ==
    <<NText("TypedText", A), NText("TypedText", B), NText("Text", A),
      NOptional(NString(0, <<NText("TypedText", A)>>))>>

\* chunk sequences whose strings are compared pairwise
PairSeqs ==
    <<<<>>>>
      \o [i \in 1 .. Len(PunctuationKindSeq) |-> <<NPunct(PunctuationKindSeq[i])>>]
      \o Product(TextKindSeq, <<A>>, OneText)
      \o Product(<<"TypedText">>, TextSeq, OneText)
      \o [i \in 1 .. Len(NestedSeq) |-> <<NOptional(NestedSeq[i])>>]
      \o Product(PairChunks, PairChunks, Two)

\* every text-bearing kind with every text
OtherSeqs ==
    Product(SelectSeq(TextKindSeq, LAMBDA k : k # "TypedText"), OtherTextSeq, OneText)

\* TypedText("foo") ( Optional(Placeholder("int x")) )
FooTemplate ==
    <<NText("TypedText", Foo), NPunct("LeftParen"),
      NOptional(NString(0, <<NText("Placeholder", IntX)>>)),
      NPunct("RightParen")>>

ScenarioStrings == <<NString(5, <<NText("TypedText", Abc)>>), NString(10, FooTemplate)>>

CursorKinds == <<"FunctionDecl", "VarDecl", "MacroDefinition", "StructDecl">>

\* Result arrays the engine can hand back: 1 is a small array, 2 holds the
\* scenario strings, then one result per priority and chunk sequence, those
\* compared pairwise first; set 0 is the empty array.
SmallResults ==
    <<[CursorKind |-> "FunctionDecl", CompletionString |-> NString(10, FooTemplate)],
      [CursorKind |-> "VarDecl",
       CompletionString |->
           NString(5, <<NOptional(NString(0, <<NText("TypedText", Abc)>>))>>)]>>

CatalogueStrings ==
    ScenarioStrings \o Product(PairSeqs \o OtherSeqs, PrioritySeq,
                               LAMBDA cs, p : NString(p, cs))

CatalogueResults ==
    [i \in 1 .. Len(CatalogueStrings) |->
        [CursorKind |-> CursorKinds[(i % Len(CursorKinds)) + 1],
         CompletionString |-> CatalogueStrings[i]]]

\* indices of the catalogue results that are compared pairwise
PairIndices == 1 .. (Len(ScenarioStrings) + Len(PairSeqs) * Len(PrioritySeq))

ResultSets == <<SmallResults, CatalogueResults>>

NativeResults == IF mem.set = 0 THEN <<>> ELSE ResultSets[mem.set]

\* the native completion string a raw handle points to
RECURSIVE Descend(_, _)
Descend(s, path) ==
    IF path = <<>> THEN s
    ELSE Descend(s.chunks[Head(path)].child[1], Tail(path))

Deref(raw) == Descend(NativeResults[Head(raw)].CompletionString, Tail(raw))

\* every handle of the buffer: the results' strings and the strings nested in them
RECURSIVE SubHandles(_, _)
SubHandles(s, raw) ==
    {raw} \cup UNION {SubHandles(s.chunks[k].child[1], Append(raw, k)) :
                        k \in {j \in 1 .. Len(s.chunks) : s.chunks[j].kind = "Optional"}}

Handles(results) ==
    UNION {SubHandles(results[i].CompletionString, <<i>>) : i \in 1 .. Len(results)}

clang_getNumCompletionChunks(raw) == Len(Deref(raw).chunks)
clang_getCompletionChunkKind(raw, i) == Deref(raw).chunks[i].kind
clang_getCompletionChunkText(raw, i) == Deref(raw).chunks[i].text
clang_getCompletionChunkCompletionString(raw, i) ==
    IF Deref(raw).chunks[i].kind = "Optional" THEN Append(raw, i) ELSE <<>>
clang_getCompletionPriority(raw) == Deref(raw).priority

\* the code-completion-results calls accept a null pointer; the context mask
\* the engine reports fits in the 32 bits of c_uint the source casts it to
clang_codeCompleteGetContexts(p) == IF p = 0 THEN 0 ELSE mem.contexts
clang_codeCompleteGetContainerKind(p) == IF p = 0 THEN "InvalidCode" ELSE mem.container
clang_codeCompleteGetObjCSelector(p) == IF p = 0 THEN CString(<<>>) ELSE mem.selector
clang_codeCompleteGetContainerUSR(p) == IF p = 0 THEN CString(<<>>) ELSE mem.usr
clang_codeCompleteGetNumDiagnostics(p) == IF p = 0 THEN 0 ELSE mem.ndiags

(***************************************************************************)
(* utility::to_string / to_string_option: a CXString as an owned String    *)
(***************************************************************************)
to_string(cx) ==
    LET nul == CHOOSE i \in 1 .. Len(cx) :
                   cx[i] = 0 /\ \A j \in 1 .. (i - 1) : cx[j] # 0
    IN SubSeq(cx, 1, nul - 1)

to_string_option(cx) ==
    IF cx = NullCXString \/ to_string(cx) = <<>> THEN None ELSE Some(to_string(cx))

(***************************************************************************)
(* CompletionChunk                                                         *)
(***************************************************************************)
NullString == [raw |-> <<>>]

Punctuation(v) == [variant |-> v, text |-> <<>>, string |-> NullString]
TextChunk(v, t) == [variant |-> v, text |-> t, string |-> NullString]
Optional(s) == [variant |-> "Optional", text |-> <<>>, string |-> s]

\* faulty variant of get_text: the punctuation literals are forgotten
get_text_payload_only(chunk) ==
    IF chunk.variant = "Optional" THEN None ELSE Some(chunk.text)

get_text(chunk) ==
    CASE chunk.variant = "Colon" -> Some(<<58>>)
      [] chunk.variant = "Comma" -> Some(<<44>>)
      [] chunk.variant = "Equals" -> Some(<<61>>)
      [] chunk.variant = "Semicolon" -> Some(<<59>>)
      [] chunk.variant = "LeftAngleBracket" -> Some(<<60>>)
      [] chunk.variant = "RightAngleBracket" -> Some(<<62>>)
      [] chunk.variant = "LeftBrace" -> Some(<<123>>)
      [] chunk.variant = "RightBrace" -> Some(<<125>>)
      [] chunk.variant = "LeftParenthesis" -> Some(<<40>>)
      [] chunk.variant = "RightParenthesis" -> Some(<<41>>)
      [] chunk.variant = "LeftSquareBracket" -> Some(<<91>>)
      [] chunk.variant = "RightSquareBracket" -> Some(<<93>>)
      [] chunk.variant \in {"CurrentParameter", "Informative", "Placeholder",
                            "ResultType", "TypedText", "Text", "HorizontalSpace",
                            "VerticalSpace"} -> Some(chunk.text)
      [] chunk.variant = "Optional" -> None

is_optional(chunk) == chunk.variant = "Optional"

(***************************************************************************)
(* CompletionString                                                        *)
(***************************************************************************)
CompletionString_from_raw(raw) == [raw |-> raw]

get_priority(self) == clang_getCompletionPriority(self.raw)

\* the closure of get_chunks: chunk i of kind k
chunk(self, i, k) ==
    CASE k = "Colon" -> Punctuation("Colon")
      [] k = "Comma" -> Punctuation("Comma")
      [] k = "Equal" -> Punctuation("Equals")
      [] k = "SemiColon" -> Punctuation("Semicolon")
      [] k = "LeftAngle" -> Punctuation("LeftAngleBracket")
      [] k = "RightAngle" -> Punctuation("RightAngleBracket")
      [] k = "LeftBrace" -> Punctuation("LeftBrace")
      [] k = "RightBrace" -> Punctuation("RightBrace")
      [] k = "LeftParen" -> Punctuation("LeftParenthesis")
      [] k = "RightParen" -> Punctuation("RightParenthesis")
      [] k = "LeftBracket" -> Punctuation("LeftSquareBracket")
      [] k = "RightBracket" -> Punctuation("RightSquareBracket")
      [] k = "HorizontalSpace" ->
            TextChunk("HorizontalSpace", to_string(clang_getCompletionChunkText(self.raw, i)))
      [] k = "VerticalSpace" ->
            TextChunk("VerticalSpace", to_string(clang_getCompletionChunkText(self.raw, i)))
      [] k = "CurrentParameter" ->
            TextChunk("CurrentParameter", to_string(clang_getCompletionChunkText(self.raw, i)))
      [] k = "TypedText" ->
            TextChunk("TypedText", to_string(clang_getCompletionChunkText(self.raw, i)))
      [] k = "Text" ->
            TextChunk("Text", to_string(clang_getCompletionChunkText(self.raw, i)))
      [] k = "Placeholder" ->
            TextChunk("Placeholder", to_string(clang_getCompletionChunkText(self.raw, i)))
      [] k = "Informative" ->
            TextChunk("Informative", to_string(clang_getCompletionChunkText(self.raw, i)))
      [] k = "ResultType" ->
            TextChunk("ResultType", to_string(clang_getCompletionChunkText(self.raw, i)))
      [] k = "Optional" ->
            Optional(CompletionString_from_raw(
                         clang_getCompletionChunkCompletionString(self.raw, i)))

\* faulty variant of get_chunks: the last chunk is left out
get_chunks_short(self) ==
    [i \in 1 .. (clang_getNumCompletionChunks(self.raw) - 1) |->
        chunk(self, i, clang_getCompletionChunkKind(self.raw, i))]

get_chunks(self) ==
    [i \in 1 .. clang_getNumCompletionChunks(self.raw) |->
        chunk(self, i, clang_getCompletionChunkKind(self.raw, i))]

\* faulty variant of get_typed_text: the last TypedText chunk wins
get_typed_text_last(self) ==
    LET chunks == get_chunks(self)
        typed == {i \in 1 .. Len(chunks) : chunks[i].variant = "TypedText"}
    IN IF typed = {} THEN None
       ELSE Some(chunks[CHOOSE i \in typed : \A j \in typed : j <= i].text)

RECURSIVE first_typed_text(_, _)
first_typed_text(chunks, i) ==
    IF i > Len(chunks) THEN None
    ELSE IF chunks[i].variant = "TypedText" THEN Some(chunks[i].text)
    ELSE first_typed_text(chunks, i + 1)

get_typed_text(self) == first_typed_text(get_chunks(self), 1)

\* PartialEq: derived for CompletionChunk, by decoded chunks for CompletionString
RECURSIVE CompletionString_eq(_, _)

CompletionChunk_eq(a, b) ==
    /\ a.variant = b.variant
    /\ IF a.variant = "Optional"
       THEN CompletionString_eq(a.string, b.string)
       ELSE a.text = b.text

Vec_eq(x, y) ==
    /\ Len(x) = Len(y)
    /\ \A i \in 1 .. Len(x) : CompletionChunk_eq(x[i], y[i])

\* faulty variant of eq: the handles are compared, as a derived PartialEq would
CompletionString_eq_raw(self, other) == self.raw = other.raw

CompletionString_eq(self, other) == Vec_eq(get_chunks(self), get_chunks(other))

\* Ord
usize_cmp(a, b) == IF a < b THEN "Less" ELSE IF a = b THEN "Equal" ELSE "Greater"

String_cmp(a, b) ==
    LET n == IF Len(a) < Len(b) THEN Len(a) ELSE Len(b)
        diff == {i \in 1 .. n : a[i] # b[i]}
    IN IF diff = {} THEN usize_cmp(Len(a), Len(b))
       ELSE LET k == CHOOSE i \in diff : \A j \in diff : i <= j
            IN usize_cmp(a[k], b[k])

Option_cmp(a, b) ==
    IF a = None /\ b = None THEN "Equal"
    ELSE IF a = None THEN "Less"
    ELSE IF b = None THEN "Greater"
    ELSE String_cmp(a[1], b[1])

\* faulty variant of cmp: the typed text is compared before the priority
CompletionString_cmp_text_first(self, other) ==
    LET o == Option_cmp(get_typed_text(self), get_typed_text(other))
    IN IF o = "Equal" THEN usize_cmp(get_priority(self), get_priority(other)) ELSE o

CompletionString_cmp(self, other) ==
    LET o == usize_cmp(get_priority(self), get_priority(other))
    IN IF o = "Equal"
       THEN Option_cmp(get_typed_text(self), get_typed_text(other))
       ELSE o

(***************************************************************************)
(* CompletionResult                                                        *)
(***************************************************************************)
CompletionResult_from_raw(raw) ==
    [kind |-> raw.CursorKind, string |-> CompletionString_from_raw(raw.CompletionString)]

\* faulty variant of cmp: the kind takes part in the order
CompletionResult_cmp_kind_first(self, other) ==
    IF self.kind = other.kind THEN CompletionString_cmp(self.string, other.string)
    ELSE IF self.kind = "FunctionDecl" THEN "Less" ELSE "Greater"

CompletionResult_cmp(self, other) == CompletionString_cmp(self.string, other.string)

(***************************************************************************)
(* CompletionContext                                                       *)
(***************************************************************************)
CXCompletionContext_Unknown == 4194303

\* the options of CompletionContext and the bit of the flag each one reads
ContextFlags ==
    <<[option |-> "all_types", bit |-> 0],
      [option |-> "all_values", bit |-> 1],
      [option |-> "class_type_values", bit |-> 4],
      [option |-> "dot_members", bit |-> 5],
      [option |-> "arrow_members", bit |-> 6],
      [option |-> "enum_tags", bit |-> 8],
      [option |-> "union_tags", bit |-> 9],
      [option |-> "struct_tags", bit |-> 10],
      [option |-> "class_names", bit |-> 11],
      [option |-> "namespaces", bit |-> 12],
      [option |-> "nested_name_specifiers", bit |-> 13],
      [option |-> "macro_names", bit |-> 20],
      [option |-> "natural_language", bit |-> 21],
      [option |-> "objc_object_values", bit |-> 2],
      [option |-> "objc_selector_values", bit |-> 3],
      [option |-> "objc_property_members", bit |-> 7],
      [option |-> "objc_interfaces", bit |-> 14],
      [option |-> "objc_protocols", bit |-> 15],
      [option |-> "objc_categories", bit |-> 16],
      [option |-> "objc_instance_messages", bit |-> 17],
      [option |-> "objc_class_messages", bit |-> 18],
      [option |-> "objc_selector_names", bit |-> 19]>>

RECURSIVE BitAnd(_, _)
BitAnd(a, b) ==
    IF a = 0 \/ b = 0 THEN 0
    ELSE (a % 2) * (b % 2) + 2 * BitAnd(a \div 2, b \div 2)

\* bitflags: every bit that belongs to no flag is dropped
from_bits_truncate(bits) == BitAnd(bits, CXCompletionContext_Unknown)

contains(flags, flag) == BitAnd(flags, flag) = flag

CompletionContext_from(flags) ==
    [i \in 1 .. Len(ContextFlags) |->
        [option |-> ContextFlags[i].option,
         value |-> contains(flags, Pow2(ContextFlags[i].bit))]]

(***************************************************************************)
(* CompletionResults                                                       *)
(***************************************************************************)
CompletionResults_from_ptr(p) == p

get_diagnostics(p) ==
    [i \in 1 .. clang_codeCompleteGetNumDiagnostics(p) |-> [diagnostic |-> i]]

\* faulty variant of get_context: the unknown sentinel is not tested
get_context_no_sentinel(p) ==
    LET bits == clang_codeCompleteGetContexts(p)
    IN IF bits # 0
       THEN Some(CompletionContext_from(from_bits_truncate(bits)))
       ELSE None

get_context(p) ==
    LET bits == clang_codeCompleteGetContexts(p)
    IN IF bits # 0 /\ bits # CXCompletionContext_Unknown
       THEN Some(CompletionContext_from(from_bits_truncate(bits)))
       ELSE None

get_container_kind(p) ==
    LET kind == clang_codeCompleteGetContainerKind(p)
    IN IF kind = "InvalidCode" THEN None ELSE Some(<<kind, mem.incomplete # 0>>)

get_objc_selector(p) == to_string_option(clang_codeCompleteGetObjCSelector(p))

get_usr(p) == to_string_option(clang_codeCompleteGetContainerUSR(p))

\* reads (*ptr).Results and (*ptr).NumResults: defined only for a non-null ptr
get_results(p) ==
    [i \in 1 .. Len(NativeResults) |->
        CompletionResult_from_raw(
            [CursorKind |-> NativeResults[i].CursorKind, CompletionString |-> <<i>>])]

\* the lifetime get_results gives the views it returns: that of the borrow of
\* the CompletionResults ("r"), which has to end before the owner is dropped
\* faulty variant: views that are not bound to the borrow of the owner
get_results_lifetime_static == "static"

get_results_lifetime == "r"

\* the buffers released when a CompletionResults is dropped:
\* clang_disposeCodeCompleteResults frees a non-null buffer and ignores null
\* faulty variant of drop: the buffer is never released
drop_leaks(p) == 0

drop(p) == IF p = 0 THEN 0 ELSE 1

(***************************************************************************)
(* Buffers the engine returns from clang_codeCompleteAt                    *)
(***************************************************************************)
Buffer(set, contexts, container, incomplete, selector, usr, ndiags) ==
    [set |-> set, contexts |-> contexts, container |-> container,
     incomplete |-> incomplete, selector |-> selector, usr |-> usr,
     ndiags |-> ndiags]

NoBuffer == Buffer(0, 0, "InvalidCode", 0, NullCXString, NullCXString, 0)

EmptyBuffer == Buffer(0, 0, "InvalidCode", 0, CString(<<>>), CString(<<>>), 1)

EngineBuffers ==
    {EmptyBuffer,
     Buffer(1, 33, "StructDecl", 1, CString(Foo), CString(Abc), 0),
     Buffer(1, CXCompletionContext_Unknown, "InvalidCode", 0, CString(<<>>),
            CString(<<>>), 0)}

CatalogueBuffer == Buffer(2, 0, "InvalidCode", 0, CString(<<>>), CString(<<>>), 0)

MaskBits == 0 .. MaxMaskBit
FewBits == {{}} \cup {{i} : i \in MaskBits} \cup {{i, j} : i, j \in MaskBits}
MaskSample ==
    {SetMask(S) : S \in FewBits} \cup {SetMask(MaskBits \ S) : S \in FewBits}

NoRet == [op |-> "none", in |-> <<>>, val |-> <<>>]
Ret(op, in, val) == [op |-> op, in |-> in, val |-> val]

(***************************************************************************)
(* The life of one CompletionResults and of the views borrowed from it     *)
(***************************************************************************)
Init ==
    /\ pc = "start"
    /\ ptr = 0
    /\ mem = NoBuffer
    /\ disposed = 0
    /\ views = <<>>
    /\ args = <<>>
    /\ ret = NoRet
    /\ nullDeref = FALSE
    /\ staleRead = FALSE

\* Completer::complete: the engine returns a buffer, or a null pointer
Complete ==
    /\ pc = "start"
    /\ \E p \in {0, 1} :
          /\ ptr' = CompletionResults_from_ptr(p)
          /\ IF p = 0 THEN mem' = NoBuffer ELSE mem' \in EngineBuffers
    /\ views' = [h \in Handles(IF mem'.set = 0 THEN <<>> ELSE ResultSets[mem'.set]) |-> 0]
    /\ pc' = "alive"
    /\ UNCHANGED <<disposed, args, ret, nullDeref, staleRead>>

TopHandles == {h \in DOMAIN views : Len(h) = 1}

\* CompletionResults::get_results; with a null ptr the read of (*ptr).Results
\* is undefined: the process faults, or the read yields an empty array
GetResults ==
    /\ pc = "alive"
    /\ IF ptr = 0
       THEN /\ nullDeref' = TRUE
            /\ \/ pc' = "crashed" /\ UNCHANGED ret
               \/ pc' = pc /\ ret' = Ret("get_results", <<>>, <<>>)
            /\ UNCHANGED views
       ELSE /\ \A h \in TopHandles : views[h] < MaxCopies
            /\ ret' = Ret("get_results", <<>>, get_results(ptr))
            /\ views' = [h \in DOMAIN views |->
                            IF h \in TopHandles THEN views[h] + 1 ELSE views[h]]
            /\ UNCHANGED <<pc, nullDeref>>
    /\ UNCHANGED <<ptr, mem, disposed, args, staleRead>>

GetContext ==
    /\ pc = "alive"
    /\ ret' = Ret("get_context", <<>>, get_context(ptr))
    /\ UNCHANGED <<pc, ptr, mem, disposed, views, args, nullDeref, staleRead>>

GetDiagnostics ==
    /\ pc = "alive"
    /\ ret' = Ret("get_diagnostics", <<>>, get_diagnostics(ptr))
    /\ UNCHANGED <<pc, ptr, mem, disposed, views, args, nullDeref, staleRead>>

GetContainerKind ==
    /\ pc = "alive"
    /\ ret' = Ret("get_container_kind", <<>>, get_container_kind(ptr))
    /\ UNCHANGED <<pc, ptr, mem, disposed, views, args, nullDeref, staleRead>>

GetObjcSelector ==
    /\ pc = "alive"
    /\ ret' = Ret("get_objc_selector", <<>>, get_objc_selector(ptr))
    /\ UNCHANGED <<pc, ptr, mem, disposed, views, args, nullDeref, staleRead>>

GetUsr ==
    /\ pc = "alive"
    /\ ret' = Ret("get_usr", <<>>, get_usr(ptr))
    /\ UNCHANGED <<pc, ptr, mem, disposed, views, args, nullDeref, staleRead>>

\* a live view is read: CompletionString::get_chunks, which yields views of
\* the nested strings
GetChunks(h) ==
    /\ pc \in {"alive", "dropped"}
    /\ views[h] > 0
    /\ LET chunks == get_chunks(CompletionString_from_raw(h))
           nested == {chunks[i].string.raw :
                         i \in {j \in 1 .. Len(chunks) : is_optional(chunks[j])}}
       IN /\ \A n \in nested : views[n] < MaxCopies
          /\ ret' = Ret("get_chunks", <<h>>, chunks)
          /\ views' = [n \in DOMAIN views |->
                          IF n \in nested THEN views[n] + 1 ELSE views[n]]
    /\ staleRead' = (staleRead \/ pc = "dropped")
    /\ UNCHANGED <<pc, ptr, mem, disposed, args, nullDeref>>

\* a live view is read: CompletionString::get_priority
GetPriority(h) ==
    /\ pc \in {"alive", "dropped"}
    /\ views[h] > 0
    /\ ret' = Ret("get_priority", <<h>>, get_priority(CompletionString_from_raw(h)))
    /\ staleRead' = (staleRead \/ pc = "dropped")
    /\ UNCHANGED <<pc, ptr, mem, disposed, views, args, nullDeref>>

\* derive(Copy, Clone): another handle to the same native string
CopyView(h) ==
    /\ pc \in {"alive", "dropped"}
    /\ views[h] > 0
    /\ views[h] < MaxCopies
    /\ views' = [views EXCEPT ![h] = @ + 1]
    /\ UNCHANGED <<pc, ptr, mem, disposed, args, ret, nullDeref, staleRead>>

\* a view goes out of scope: the views have no destructor
DropView(h) ==
    /\ pc \in {"alive", "dropped"}
    /\ views[h] > 0
    /\ views' = [views EXCEPT ![h] = @ - 1]
    /\ UNCHANGED <<pc, ptr, mem, disposed, args, ret, nullDeref, staleRead>>

\* impl Drop for CompletionResults: the owner can go only once every view
\* whose lifetime is bound to its borrow is gone
Drop ==
    /\ pc = "alive"
    /\ get_results_lifetime = "r" => \A h \in DOMAIN views : views[h] = 0
    /\ disposed' = disposed + drop(ptr)
    /\ pc' = "dropped"
    /\ UNCHANGED <<ptr, mem, views, args, ret, nullDeref, staleRead>>

Next ==
    \/ Complete
    \/ GetResults
    \/ GetContext
    \/ GetDiagnostics
    \/ GetContainerKind
    \/ GetObjcSelector
    \/ GetUsr
    \/ \E h \in DOMAIN views : GetChunks(h)
    \/ \E h \in DOMAIN views : GetPriority(h)
    \/ \E h \in DOMAIN views : CopyView(h)
    \/ \E h \in DOMAIN views : DropView(h)
    \/ Drop

Spec == Init /\ [][Next]_vars

(***************************************************************************)
(* The pure functions, applied to results of one buffer                    *)
(***************************************************************************)
CatalogueHandles == Handles(CatalogueResults)
PairHandles == {<<i>> : i \in PairIndices}

InitPure ==
    /\ pc = "alive"
    /\ ptr = 1
    /\ disposed = 0
    /\ views = <<>>
    /\ ret = NoRet
    /\ nullDeref = FALSE
    /\ staleRead = FALSE
    /\ \/ /\ mem = CatalogueBuffer
          /\ args \in {<<h>> : h \in CatalogueHandles}
                        \cup {<<g, h>> : g \in PairHandles, h \in PairHandles}
       \/ /\ args = <<>>
          /\ mem \in {[EmptyBuffer EXCEPT !.contexts = m] : m \in MaskSample}

Applied(r) ==
    /\ ret = NoRet
    /\ ret' = r
    /\ UNCHANGED <<pc, ptr, mem, disposed, views, args, nullDeref, staleRead>>

ResultOf(h) == get_results(ptr)[Head(h)]

ApplyResultCmp ==
    /\ Len(args) = 2
    /\ Applied(Ret("result_cmp", args,
                   CompletionResult_cmp(ResultOf(args[1]), ResultOf(args[2]))))

ApplyStringCmp ==
    /\ Len(args) = 2
    /\ Applied(Ret("string_cmp", args,
                   CompletionString_cmp(ResultOf(args[1]).string, ResultOf(args[2]).string)))

ApplyEq ==
    /\ Len(args) = 2
    /\ Applied(Ret("eq", args,
                   CompletionString_eq(ResultOf(args[1]).string, ResultOf(args[2]).string)))

ApplyGetChunks ==
    /\ Len(args) = 1
    /\ Applied(Ret("get_chunks", args, get_chunks(CompletionString_from_raw(args[1]))))

ApplyGetTypedText ==
    /\ Len(args) = 1
    /\ Applied(Ret("get_typed_text", args, get_typed_text(CompletionString_from_raw(args[1]))))

ApplyGetText ==
    /\ Len(args) = 1
    /\ \E k \in 1 .. Len(get_chunks(CompletionString_from_raw(args[1]))) :
          LET c == get_chunks(CompletionString_from_raw(args[1]))[k]
          IN Applied(Ret("get_text", <<c>>,
                         [text |-> get_text(c), optional |-> is_optional(c)]))

ApplyGetContext ==
    /\ Len(args) = 0
    /\ Applied(Ret("get_context", <<>>, get_context(ptr)))

NextPure ==
    \/ ApplyResultCmp
    \/ ApplyStringCmp
    \/ ApplyEq
    \/ ApplyGetChunks
    \/ ApplyGetTypedText
    \/ ApplyGetText
    \/ ApplyGetContext

SpecPure == InitPure /\ [][NextPure]_vars

(***************************************************************************)
(* What the claims speak of, read from the native buffer                   *)
(***************************************************************************)
NativePriority(h) == Deref(h).priority

\* the text of a native chunk: its bytes without the terminating NUL
NativeText(c) == SubSeq(c.text, 1, Len(c.text) - 1)

\* the text of the first top-level TypedText chunk of the native string
NativeTyped(h) ==
    LET cs == Deref(h).chunks
        typed == {i \in 1 .. Len(cs) : cs[i].kind = "TypedText"}
    IN IF typed = {} THEN None
       ELSE Some(NativeText(cs[CHOOSE i \in typed : \A j \in typed : i <= j]))

\* a is before b in the lexicographic order of byte strings
LexLess(a, b) ==
    \E k \in 1 .. Len(b) :
        /\ \A j \in 1 .. (k - 1) : j <= Len(a) /\ a[j] = b[j]
        /\ k = Len(a) + 1 \/ (k <= Len(a) /\ a[k] < b[k])

TypedOrder(a, b) ==
    IF a = b THEN "Equal"
    ELSE IF a = None THEN "Less"
    ELSE IF b = None THEN "Greater"
    ELSE IF LexLess(a[1], b[1]) THEN "Less" ELSE "Greater"

\* C1 as stated: whenever priority(r1) <= priority(r2), r1.cmp(r2) is Less or
\* Equal, whatever the typed texts are.
C1_AtOrBefore ==
    (ret.op = "result_cmp" /\ NativePriority(ret.in[1]) <= NativePriority(ret.in[2]))
        => ret.val \in {"Less", "Equal"}

\* C1 amended: whenever priority(r1) < priority(r2), r1.cmp(r2) is Less,
\* whatever the typed texts are (with equal priorities the typed text decides).
C1_StrictlyLowerPriorityFirst ==
    (ret.op = "result_cmp" /\ NativePriority(ret.in[1]) < NativePriority(ret.in[2]))
        => ret.val = "Less"

C1_Witness ==
    /\ ret.op = "result_cmp"
    /\ NativePriority(ret.in[1]) = 10
    /\ NativePriority(ret.in[2]) = 20
    /\ NativeTyped(ret.in[1]) = Some(B)
    /\ NativeTyped(ret.in[2]) = Some(A)
    /\ ret.val = "Less"

\* C2: CompletionResult::cmp is CompletionString::cmp of the two strings and
\* ignores kind; with equal priorities it is the order of the typed texts,
\* None before Some(_), Some(a) against Some(b) lexicographically.
C2_ResultOrderIsStringOrder ==
    ret.op \in {"result_cmp", "string_cmp"} =>
        /\ ret.val = CompletionString_cmp(CompletionString_from_raw(ret.in[1]),
                                          CompletionString_from_raw(ret.in[2]))
        /\ NativePriority(ret.in[1]) = NativePriority(ret.in[2])
              => ret.val = TypedOrder(NativeTyped(ret.in[1]), NativeTyped(ret.in[2]))

C2_Witness ==
    /\ ret.op = "result_cmp"
    /\ ResultOf(ret.in[1]).kind # ResultOf(ret.in[2]).kind
    /\ NativePriority(ret.in[1]) = NativePriority(ret.in[2])
    /\ NativeTyped(ret.in[1]) = None
    /\ NativeTyped(ret.in[2]) = Some(<<>>)
    /\ ret.val = "Less"

\* the fully decoded chunk sequence of a string
RECURSIVE Decoded(_)
Decoded(h) ==
    LET chunks == get_chunks(CompletionString_from_raw(h))
    IN [i \in 1 .. Len(chunks) |->
           [variant |-> chunks[i].variant,
            text |-> chunks[i].text,
            nested |-> IF chunks[i].variant = "Optional"
                       THEN Decoded(chunks[i].string.raw) ELSE <<>>]]

StringEq(g, h) == CompletionString_eq(CompletionString_from_raw(g), CompletionString_from_raw(h))

\* C3: a == b exactly when the fully decoded chunk sequences of a and b are
\* equal, whatever the handles and priorities; == is reflexive, symmetric
\* and transitive.
C3_StructuralEquality ==
    ret.op = "eq" =>
        LET a == ret.in[1]
            b == ret.in[2]
        IN /\ ret.val = (Decoded(a) = Decoded(b))
           /\ StringEq(a, a) /\ StringEq(b, b)
           /\ ret.val = StringEq(b, a)
           /\ ret.val => \A c \in PairHandles : StringEq(b, c) => StringEq(a, c)

C3_Witness ==
    /\ ret.op = "eq"
    /\ ret.val = TRUE
    /\ ret.in[1] # ret.in[2]
    /\ NativePriority(ret.in[1]) # NativePriority(ret.in[2])
    /\ \E i \in 1 .. Len(Deref(ret.in[1]).chunks) :
          Deref(ret.in[1]).chunks[i].kind = "Optional"

\* C4: the native buffer is released exactly once, when the CompletionResults
\* is dropped: not before, whatever accessors ran and whatever views were
\* taken, copied or dropped, and not twice; also for a buffer of zero results.
C4_ReleasedExactlyOnce ==
    /\ disposed = IF ptr # 0 /\ pc = "dropped" THEN 1 ELSE 0
    /\ pc = "start" => ptr = 0

C4_Witness ==
    /\ pc = "dropped"
    /\ ptr # 0
    /\ mem.set = 0
    /\ ret.op = "get_results"
    /\ ret.val = <<>>
    /\ disposed = 1

\* what each query degrades to when there is no buffer
EmptyEquivalent(op) ==
    IF op \in {"get_results", "get_diagnostics"} THEN <<>> ELSE None

Queries ==
    {"get_results", "get_context", "get_diagnostics", "get_container_kind",
     "get_objc_selector", "get_usr"}

\* C5: when the native call returned a null pointer, every query on the
\* CompletionResults returns its empty or None equivalent and none reads
\* through the null pointer.
C5_NullDegradesSafely ==
    (ptr = 0 /\ pc # "start") =>
        /\ ~nullDeref
        /\ pc # "crashed"
        /\ ret.op \in Queries => ret.val = EmptyEquivalent(ret.op)

\* C6: no view obtained from a CompletionResults, through get_results or
\* through get_chunks and nested Optional chunks, is read after the
\* CompletionResults was dropped: once it is dropped no view is left.
C6_NoReadAfterDrop ==
    /\ ~staleRead
    /\ pc = "dropped" => \A h \in DOMAIN views : views[h] = 0

C6_Witness ==
    /\ pc = "dropped"
    /\ ptr # 0
    /\ ret.op = "get_chunks"
    /\ Len(ret.in[1]) = 2

\* the variant get_chunks is to give each native chunk kind
VariantOfKind ==
    [k \in CXCompletionChunkKind |->
        CASE k = "Equal" -> "Equals"
          [] k = "SemiColon" -> "Semicolon"
          [] k = "LeftAngle" -> "LeftAngleBracket"
          [] k = "RightAngle" -> "RightAngleBracket"
          [] k = "LeftParen" -> "LeftParenthesis"
          [] k = "RightParen" -> "RightParenthesis"
          [] k = "LeftBracket" -> "LeftSquareBracket"
          [] k = "RightBracket" -> "RightSquareBracket"
          [] OTHER -> k]

\* C7: get_chunks of a string whose native template has n chunks returns n
\* chunks in template order; chunk i is the variant of the i-th native kind,
\* without payload for punctuation, with the text of chunk i for the
\* text-bearing kinds, and wrapping the nested string of chunk i for Optional.
C7_ChunksInTemplateOrder ==
    ret.op = "get_chunks" =>
        LET h == ret.in[1]
            native == Deref(h).chunks
        IN /\ Len(ret.val) = Len(native)
           /\ \A i \in 1 .. Len(native) :
                 /\ i <= Len(ret.val)
                 /\ ret.val[i].variant = VariantOfKind[native[i].kind]
                 /\ native[i].kind \in PunctuationKinds =>
                       ret.val[i].text = <<>> /\ ret.val[i].string = NullString
                 /\ native[i].kind \in TextKinds =>
                       ret.val[i].text = NativeText(native[i])
                          /\ ret.val[i].string = NullString
                 /\ native[i].kind = "Optional" =>
                       /\ ret.val[i].string.raw = Append(h, i)
                       /\ Deref(ret.val[i].string.raw) = native[i].child[1]

C7_Witness ==
    /\ ret.op = "get_chunks"
    /\ Deref(ret.in[1]).chunks = FooTemplate
    /\ Len(ret.val) = 4
    /\ ret.val[1] = TextChunk("TypedText", Foo)
    /\ ret.val[2] = Punctuation("LeftParenthesis")
    /\ ret.val[3].variant = "Optional"
    /\ get_chunks(ret.val[3].string) = <<TextChunk("Placeholder", IntX)>>
    /\ ret.val[4] = Punctuation("RightParenthesis")

\* C8: get_typed_text is Some of the text of the first TypedText chunk of
\* get_chunks(), and None when get_chunks() holds no TypedText chunk, also
\* when one occurs inside a nested Optional string.
C8_FirstTypedText ==
    ret.op = "get_typed_text" =>
        LET chunks == get_chunks(CompletionString_from_raw(ret.in[1]))
            typed == {i \in 1 .. Len(chunks) : chunks[i].variant = "TypedText"}
        IN /\ typed = {} => ret.val = None
           /\ \A i \in typed :
                 (\A j \in typed : i <= j) => ret.val = Some(chunks[i].text)

C8_Witness ==
    /\ ret.op = "get_typed_text"
    /\ Deref(ret.in[1]).chunks = <<NOptional(NString(0, <<NText("TypedText", A)>>))>>
    /\ ret.val = None

BitSet(m, bit) == (m \div Pow2(bit)) % 2 = 1

\* C9: get_context is None exactly when the raw mask is zero or the unknown
\* sentinel; otherwise it is Some(context) whose every named flag is true
\* exactly when its bit is set in the mask.
C9_ContextDecoding ==
    ret.op = "get_context" =>
        /\ ret.val = None <=>
              (mem.contexts = 0 \/ mem.contexts = CXCompletionContext_Unknown)
        /\ ret.val # None =>
              /\ Len(ret.val[1]) = Len(ContextFlags)
              /\ \A i \in 1 .. Len(ContextFlags) :
                    /\ ret.val[1][i].option = ContextFlags[i].option
                    /\ ret.val[1][i].value = BitSet(mem.contexts, ContextFlags[i].bit)

C9_Witness ==
    /\ ret.op = "get_context"
    /\ args = <<>>
    /\ mem.contexts = Pow2(22) + Pow2(5)
    /\ ret.val # None
    /\ \A i \in 1 .. Len(ContextFlags) :
          ret.val[1][i].value = (ContextFlags[i].option = "dot_members")

\* the literal of each punctuation variant: : , = ; < > { } ( ) [ ]
PunctuationLiteral ==
    {<<"Colon", 58>>, <<"Comma", 44>>, <<"Equals", 61>>, <<"Semicolon", 59>>,
     <<"LeftAngleBracket", 60>>, <<"RightAngleBracket", 62>>,
     <<"LeftBrace", 123>>, <<"RightBrace", 125>>, <<"LeftParenthesis", 40>>,
     <<"RightParenthesis", 41>>, <<"LeftSquareBracket", 91>>,
     <<"RightSquareBracket", 93>>}

\* C10: get_text is Some of the fixed literal for each punctuation variant,
\* Some of the carried string for each text-bearing variant and None for
\* Optional: it is None exactly when is_optional is true.
C10_ChunkText ==
    ret.op = "get_text" =>
        LET c == ret.in[1]
        IN /\ \A l \in PunctuationLiteral :
                 c.variant = l[1] => ret.val.text = Some(<<l[2]>>)
           /\ c.variant \in TextKinds => ret.val.text = Some(c.text)
           /\ c.variant = "Optional" => ret.val.text = None
           /\ (ret.val.text = None) <=> ret.val.optional
           /\ c.variant \in {l[1] : l \in PunctuationLiteral} \cup TextKinds \cup {"Optional"}

C10_Witness ==
    /\ ret.op = "get_text"
    /\ ret.in[1].variant = "Optional"
    /\ ret.val.text = None
    /\ ret.val.optional

Reverse(o) == IF o = "Less" THEN "Greater" ELSE IF o = "Greater" THEN "Less" ELSE "Equal"

StringCmp(g, h) == CompletionString_cmp(CompletionString_from_raw(g), CompletionString_from_raw(h))

\* derive(PartialEq) for CompletionResult: equal kind and equal string
ResultEq(g, h) == ResultOf(g).kind = ResultOf(h).kind /\ StringEq(g, h)

\* the part of C11 about the order alone: cmp(a, b) is the reverse of
\* cmp(b, a) and cmp is transitive
C11_ReverseAndTransitive ==
    ret.op \in {"string_cmp", "result_cmp"} =>
        LET a == ret.in[1]
            b == ret.in[2]
        IN /\ ret.val = Reverse(StringCmp(b, a))
           /\ \A c \in PairHandles :
                 (ret.val # "Greater" /\ StringCmp(b, c) # "Greater")
                     => /\ StringCmp(a, c) # "Greater"
                        /\ StringCmp(a, c) = "Equal"
                              => (ret.val = "Equal" /\ StringCmp(b, c) = "Equal")

\* C11: the order is a total order that agrees with equality: cmp(a, b) is
\* the reverse of cmp(b, a), and cmp(a, b) is Equal exactly when a == b (equal
\* decoded chunk sequences for CompletionString; equal kind and equal string
\* for CompletionResult).
C11_OrderAgreesWithEquality ==
    /\ ret.op = "string_cmp" =>
          /\ ret.val = Reverse(StringCmp(ret.in[2], ret.in[1]))
          /\ (ret.val = "Equal") <=> StringEq(ret.in[1], ret.in[2])
    /\ ret.op = "result_cmp" =>
          /\ ret.val = Reverse(StringCmp(ret.in[2], ret.in[1]))
          /\ (ret.val = "Equal") <=> ResultEq(ret.in[1], ret.in[2])

\* C11, one direction: strings that compare Equal are ==
C11_EqualImpliesEq ==
    ret.op = "string_cmp" => (ret.val = "Equal" => StringEq(ret.in[1], ret.in[2]))

\* C11, other direction: strings that are == compare Equal
C11_EqImpliesEqual ==
    ret.op = "string_cmp" => (StringEq(ret.in[1], ret.in[2]) => ret.val = "Equal")

====
